---- MODULE Spec2Model ----
(***************************************************************************)
(* A model of msanomalydetector/spectral_residual.py: the SpectralResidual *)
(* detector (lazy, cached detect(); the __detect pipeline with threshold   *)
(* and margin gating) and its static helpers predict_next, extend_series   *)
(* and the frequency-band mask of calculate_expected_value.                *)
(*                                                                         *)
(* Arithmetic is exact: a number is a reduced fraction [n, d] with d > 0,  *)
(* and the inputs are chosen so that no comparison of the pipeline is      *)
(* between equal numbers that a rounding error could order either way.     *)
(* numpy's fft / ifft are given by their closed forms on the inputs that   *)
(* have one with rational moduli.  The collaborators imported from         *)
(* msanomalydetector.boundary_utils and util.deanomaly_entire are not part *)
(* of spectral_residual.py; their results are drawn from small sets, once  *)
(* per instance, and kept in the variable env so that repeated runs of the *)
(* pipeline on one instance see the same results.                          *)
(***************************************************************************)
EXTENDS Integers, Sequences, FiniteSets, TLC

VARIABLES
    series,         \* self.__series__: sequence of [timestamp, value] rows
    cfg,            \* threshold, mag_window, score_window, sensitivity, detect_mode
    anomaly_frame,  \* self.__anomaly_frame: NoFrame (None) or a frame
    env,            \* results of the numeric library / collaborators, NoEnv until first used
    threads,        \* the threads that call detect() on the instance
    pc,             \* per thread: position inside detect()
    tmp,            \* per thread: outcome of its __detect() call, before the assignment
    ret,            \* per thread: what its last detect() call gave the caller
    prev,           \* per thread: what the detect() call before the last one gave
    calls,          \* per thread: number of detect() calls started
    runs,           \* number of times __detect was entered (ghost)
    nextOid,        \* next fresh object identity for a DataFrame
    locals,         \* locals of the last __detect run that built a frame (ghost)
    arg,            \* arguments of a direct call to a static helper
    out             \* result of that call

vars == <<series, cfg, anomaly_frame, env, threads, pc, tmp, ret, prev, calls,
          runs, nextOid, locals, arg, out>>

(***************************************************************************)
(* Bounds of the model.                                                    *)
(***************************************************************************)
MaxLen == 3
MaxCalls == 2
MaxArgLen == 4
MaxBandLen == 8
LongLen == 12

(***************************************************************************)
(* Exact fractions.                                                        *)
(***************************************************************************)
RECURSIVE Gcd(_, _)
Gcd(a, b) == IF b = 0 THEN a ELSE Gcd(b, a % b)

Abs(x) == IF x < 0 THEN -x ELSE x

Reduce(n, d, g) == [n |-> n \div g, d |-> d \div g]

Norm(n, d) ==
    IF d = 1 THEN [n |-> n, d |-> 1]
    ELSE IF d < 0 THEN Reduce(-n, -d, Gcd(Abs(n), -d))
    ELSE Reduce(n, d, Gcd(Abs(n), d))

Q(n, d) == Norm(n, d)
Z(i) == [n |-> i, d |-> 1]
RAdd(a, b) == Norm(a.n * b.d + b.n * a.d, a.d * b.d)
RSub(a, b) == Norm(a.n * b.d - b.n * a.d, a.d * b.d)
RDiv(a, b) == Norm(a.n * b.d, a.d * b.n)
RAbs(a) == [n |-> Abs(a.n), d |-> a.d]

RECURSIVE Below(_, _, _, _)
\* n1/d1 < n2/d2 for d1, d2 > 0: by the integer parts, and when these are
\* equal by the reciprocals of the remainders (no product is formed, so the
\* comparison with EPS stays within the integers of the checker).
Below(n1, d1, n2, d2) ==
    IF n1 \div d1 # n2 \div d2 THEN n1 \div d1 < n2 \div d2
    ELSE IF n2 % d2 = 0 THEN FALSE
    ELSE IF n1 % d1 = 0 THEN TRUE
    ELSE Below(d2, n2 % d2, d1, n1 % d1)

RLt(a, b) == Below(a.n, a.d, b.n, b.d)
RLe(a, b) == ~RLt(b, a)
RMin(a, b) == IF RLe(a, b) THEN a ELSE b
RMax(a, b) == IF RLe(a, b) THEN b ELSE a
RScale(c, a) == Norm(c * a.n, a.d)

RECURSIVE RSum(_)
\* Python's sum(): a left fold from 0.
RSum(s) == IF s = <<>> THEN Z(0) ELSE RAdd(RSum(SubSeq(s, 1, Len(s) - 1)), s[Len(s)])

ZSeq(s) == [i \in 1..Len(s) |-> Z(s[i])]
Repeat(x, k) == [i \in 1..(IF k > 0 THEN k ELSE 0) |-> x]

\* Python's values[lo:hi] for 0-based lo, hi that may be negative or out of range.
PySlice(s, lo, hi) ==
    LET n == Len(s)
        clampIdx(k) == IF k < 0 THEN (IF n + k < 0 THEN 0 ELSE n + k)
                       ELSE (IF k > n THEN n ELSE k)
        a == clampIdx(lo)
        b == clampIdx(hi)
    IN  IF a >= b THEN <<>> ELSE SubSeq(s, a + 1, b)

Raised(e) == [raised |-> TRUE, error |-> e]
Returned(v) == [raised |-> FALSE, value |-> v]

(***************************************************************************)
(* SpectralResidual.predict_next (static).                                 *)
(***************************************************************************)
predict_next_from_first(values) ==
    IF Len(values) <= 1
    THEN Raised("ValueError")
    ELSE LET n == Len(values)
             v_last == values[n]
             slopes == [k \in 1..(n - 1) |-> RDiv(RSub(v_last, values[k]), Z(n - k))]
         IN  Returned(RAdd(values[1], RSum(slopes)))

predict_next(values) ==
    IF Len(values) <= 1
    THEN Raised("ValueError")
    ELSE LET n == Len(values)
             v_last == values[n]
             \* enumerate(values[:-1]): 0-based i = k - 1, so n - 1 - i = n - k
             slopes == [k \in 1..(n - 1) |-> RDiv(RSub(v_last, values[k]), Z(n - k))]
         IN  Returned(RAdd(values[2], RSum(slopes)))

(***************************************************************************)
(* SpectralResidual.extend_series (static).                                *)
(***************************************************************************)
extend_series_with_last(values, extend_num, look_ahead) ==
    IF look_ahead < 1
    THEN Raised("ValueError")
    ELSE LET p == predict_next(PySlice(values, -look_ahead - 2, Len(values)))
         IN  IF p.raised THEN p
             ELSE Returned(values \o Repeat(p.value, extend_num))

extend_series(values, extend_num, look_ahead) ==
    IF look_ahead < 1
    THEN Raised("ValueError")
    ELSE LET p == predict_next(PySlice(values, -look_ahead - 2, -1))
         IN  IF p.raised THEN p
             \* [x] * extend_num is the empty list for extend_num <= 0
             ELSE Returned(values \o Repeat(p.value, extend_num))

(***************************************************************************)
(* The frequency band of SpectralResidual.calculate_expected_value: the    *)
(* condition of the two list comprehensions, with Python 3 true division.  *)
(***************************************************************************)
BandKeepTruncated(length, i) ==
    ((length * 3) \div 8) >= i \/ i >= ((length * 5) \div 8)

BandKeep(length, i) ==
    RLe(Z(i), Q(length * 3, 8)) \/ RLe(Q(length * 5, 8), Z(i))

\* One comprehension: [v if keep(i) else 0 for i, v in enumerate(part)].
band_mask(part, length) ==
    [k \in 1..Len(part) |-> IF BandKeep(length, k - 1) THEN part[k] ELSE 0]

\* Lines 171-172: the comprehension is applied to the real and to the imaginary parts.
mask_coefficients(coef) ==
    LET length == Len(coef.real)
    IN  [real |-> band_mask(coef.real, length), imag |-> band_mask(coef.imag, length)]

ZeroedIdx(length) == {i \in 0..(length - 1) : ~BandKeep(length, i)}

(***************************************************************************)
(* Names and values imported from msanomalydetector.util.                  *)
(***************************************************************************)
AnomalyOnly == "AnomalyOnly"
AnomalyAndMargin == "AnomalyAndMargin"

\* util.EPS = 1e-8
EPS == Q(1, 100000000)

NoFrame == [kind |-> "None"]
NoEnv == [kind |-> "NoEnv"]
NoLocals == [kind |-> "NoLocals"]
Nothing == [kind |-> "Nothing"]

(***************************************************************************)
(* Collaborators (util, boundary_utils): those of the margin branch give   *)
(* the result recorded for them in e.                                      *)
(***************************************************************************)
\* util.average_filter: for each position the mean of a local window of n
\* values, taken here as the window that ends at the position, cut at the
\* start of the input.
average_filter(values, n) ==
    LET lo(i) == IF i - n + 1 < 1 THEN 1 ELSE i - n + 1
    IN  [i \in 1..Len(values) |-> RDiv(RSum(SubSeq(values, lo(i), i)), Z(i - lo(i) + 1))]

\* util.deanomaly_entire: the values at the anomalous (0-based) indices are
\* replaced by a denoised estimate (one level for the instance), the others
\* are kept.
deanomaly_entire(values, anomaly_index, e) ==
    [k \in 1..Len(values) |-> IF (k - 1) \in anomaly_index THEN e.denoised ELSE values[k]]

\* boundary_utils.calculate_bounary_unit_entire: one unit per point.
calculate_bounary_unit_entire(values, is_anomaly, e) == e.units

\* boundary_utils.calculate_anomaly_scores: one rescaled score per point;
\* its contract gives no range for it.
calculate_anomaly_scores(values, expected_values, units, is_anomaly, e) ==
    [k \in 1..Len(is_anomaly) |-> e.rescale[k]]

\* boundary_utils.calculate_margin: a number for the unit and the
\* sensitivity; its contract gives no sign for it.
calculate_margin(unit, sensitivity, e) == e.margin[<<unit, sensitivity>>]

(***************************************************************************)
(* numpy's fft and ifft, on the sequences whose transform has a closed     *)
(* form with rational moduli.  A complex number of a transform of length N *)
(* is held as amp * w^ph with w = exp(2 pi i / N): amp a fraction, ph in   *)
(* 0..N-1 (0-based positions j, k, t below).                               *)
(*   fft of a sequence whose only nonzero entry is x at position k:        *)
(*       coefficient j = x * w^(-j k)                                      *)
(*   fft of a constant sequence c, c, ..: coefficient 0 = N c, the others  *)
(*       0 (geometric sums)                                                *)
(*   ifft of a spectrum whose only nonzero coefficient is X at j:          *)
(*       point t = (X / N) * w^(j t)                                       *)
(*   ifft of the spectrum a * w^(-j k), all j: a at point k, 0 elsewhere   *)
(***************************************************************************)
Polar(amp, ph) == [amp |-> amp, ph |-> IF amp.n = 0 THEN 0 ELSE ph]

Support(x) == {k \in 1..Len(x) : x[k].n # 0}
IsConstant(x) == \A k \in 1..Len(x) : x[k] = x[1]
NonZero(coef) == {j \in 1..Len(coef) : coef[j].amp.n # 0}
First(S) == CHOOSE k \in S : \A j \in S : k <= j

fft(values) ==
    LET N == Len(values)
    IN  CASE Support(values) = {} -> [j \in 1..N |-> Polar(Z(0), 0)]
          [] Cardinality(Support(values)) = 1 ->
                [j \in 1..N |->
                    Polar(values[First(Support(values))],
                          (-((j - 1) * (First(Support(values)) - 1))) % N)]
          [] Cardinality(Support(values)) > 1 /\ IsConstant(values) ->
                [j \in 1..N |-> IF j = 1 THEN Polar(RScale(N, values[1]), 0)
                                         ELSE Polar(Z(0), 0)]

\* The spectrum a * w^(-j k) of a single point at (1-based) position k.
IsSpectrumOfPoint(coef, k) ==
    \A j \in 1..Len(coef) :
        /\ coef[j].amp = coef[1].amp
        /\ coef[j].ph = (-((j - 1) * (k - 1))) % Len(coef)

ifft(coef) ==
    LET N == Len(coef)
    IN  CASE NonZero(coef) = {} -> [t \in 1..N |-> Polar(Z(0), 0)]
          [] Cardinality(NonZero(coef)) = 1 ->
                [t \in 1..N |->
                    Polar(RDiv(coef[First(NonZero(coef))].amp, Z(N)),
                          (coef[First(NonZero(coef))].ph
                              + (First(NonZero(coef)) - 1) * (t - 1)) % N)]
          [] Cardinality(NonZero(coef)) > 1
               /\ \E k \in 1..N : IsSpectrumOfPoint(coef, k) ->
                [t \in 1..N |->
                    IF IsSpectrumOfPoint(coef, t) THEN Polar(coef[1].amp, 0)
                                                 ELSE Polar(Z(0), 0)]

\* np.sqrt(z.real ** 2 + z.imag ** 2) of z = amp * w^ph, as |w^ph| = 1.
Modulus(z) == RAbs(z.amp)

(***************************************************************************)
(* np.log and np.exp.  The logarithm of a positive fraction b is held as   *)
(* c * ln(b) with c = 1; sums and means of logarithms of one b keep that   *)
(* form with a fraction c, and ln(1) = 0.  exp(c * ln(b)) is the power     *)
(* b^c, which is 1 for c = 0.                                              *)
(***************************************************************************)
LogNum(c, b) == IF c.n = 0 \/ b = Z(1) THEN [c |-> Z(0), b |-> Z(1)] ELSE [c |-> c, b |-> b]
Log(m) == LogNum(Z(1), m)
Bases(xs) == {xs[i].b : i \in 1..Len(xs)} \ {Z(1)}
BaseOf(xs) == IF Bases(xs) = {} THEN Z(1) ELSE CHOOSE b \in Bases(xs) : TRUE

\* average_filter on logarithms of one base: the filter is linear.
LogAverage(xs, n) ==
    CASE Cardinality(Bases(xs)) <= 1 ->
        LET ave == average_filter([i \in 1..Len(xs) |-> xs[i].c], n)
        IN  [i \in 1..Len(xs) |-> LogNum(ave[i], BaseOf(xs))]

LogSub(x, y) ==
    CASE Cardinality(Bases(<<x, y>>)) <= 1 -> LogNum(RSub(x.c, y.c), BaseOf(<<x, y>>))

Exp(x) == [base |-> x.b, exp |-> x.c]

\* part * spectral / mag, for a part of a coefficient of modulus |amp|: 0
\* for a zero part, amp / mag when spectral = 1.
Rescale(amp, spectral, mag) ==
    CASE amp.n = 0 -> Z(0)
      [] amp.n # 0 /\ spectral.exp.n = 0 -> RDiv(amp, mag)

(***************************************************************************)
(* SpectralResidual.spectral_residual_transform, one stage per statement.  *)
(***************************************************************************)
\* Lines 121-123.
SaliencyMap(trans) ==
    [t \in 1..Len(trans) |-> Modulus(ifft(trans)[t])]

\* Lines 116-119: both parts of each coefficient are multiplied by
\* spectral / mag, then set to 0 at eps_index.
RescaleSpectrum(trans, spectral, mag, eps_index) ==
    SaliencyMap([j \in 1..Len(trans) |->
                    IF j \in eps_index THEN Polar(Z(0), 0)
                    ELSE Polar(Rescale(trans[j].amp, spectral[j], mag[j]), trans[j].ph)])

\* Line 114.
SpectralOf(trans, mag, mag_log, ave_log, eps_index) ==
    RescaleSpectrum(trans, [j \in 1..Len(mag) |-> Exp(LogSub(mag_log[j], ave_log[j]))],
                    mag, eps_index)

\* Lines 111-112 and the filter of line 114.
LogSpectrum(trans, mag, mag_log, eps_index, mag_window) ==
    SpectralOf(trans, mag, mag_log, LogAverage(mag_log, mag_window), eps_index)

\* Lines 108-112.
ClampSpectrum(trans, mag, eps_index, mag_window) ==
    LogSpectrum(trans,
                [j \in 1..Len(mag) |-> IF j \in eps_index THEN EPS ELSE mag[j]],
                [j \in 1..Len(mag) |-> IF j \in eps_index THEN LogNum(Z(0), Z(1)) ELSE Log(mag[j])],
                eps_index, mag_window)

\* Lines 107-108.
MagnitudeOf(trans, mag, mag_window) ==
    ClampSpectrum(trans, mag, {j \in 1..Len(mag) : RLe(mag[j], EPS)}, mag_window)

\* Lines 106-107.
TransformOf(trans, mag_window) ==
    MagnitudeOf(trans, [j \in 1..Len(trans) |-> Modulus(trans[j])], mag_window)

spectral_residual_transform(values, mag_window) ==
    TransformOf(fft(values), mag_window)

(***************************************************************************)
(* SpectralResidual.generate_spectral_score.                               *)
(***************************************************************************)
Clip(x, lo, hi) == RMin(RMax(x, lo), hi)

\* ave_mag[np.where(ave_mag <= EPS)] = EPS
ClampToEps(ave) == [i \in 1..Len(ave) |-> IF RLe(ave[i], EPS) THEN EPS ELSE ave[i]]

\* raw_scores = abs(mags - ave_mag) / ave_mag
RawScores(mags, ave_mag) ==
    [i \in 1..Len(mags) |-> RDiv(RAbs(RSub(mags[i], ave_mag[i])), ave_mag[i])]

\* scores = np.clip(raw_scores / 10.0, 0, 1.0)
ClipScores(raw_scores) ==
    [i \in 1..Len(raw_scores) |-> Clip(RDiv(raw_scores[i], Z(10)), Z(0), Z(1))]

generate_spectral_score(mags, score_window) ==
    ClipScores(RawScores(mags, ClampToEps(average_filter(mags, score_window))))

(***************************************************************************)
(* SpectralResidual.calculate_expected_value: ifft(mask(fft(clean))), the  *)
(* complex result of np.fft.ifft as it is returned (line 174), each point  *)
(* held as [re, im].  The inverse transform of the masked spectrum is the  *)
(* clean series minus its components at the zeroed frequencies.  When no   *)
(* frequency is zeroed that is the clean series; when only the Nyquist     *)
(* frequency length/2 is zeroed (whose component is real) it is            *)
(*   clean[k] - (-1)^k * (sum_j (-1)^j clean[j]) / length.                 *)
(* In both the imaginary part is 0.  These are the cases of every length   *)
(* up to 4 (and of 6 and 8).                                               *)
(***************************************************************************)
Complex(re, im) == [re |-> re, im |-> im]

\* numpy's <= on complex operands: by the real parts, then by the imaginary parts.
CLe(a, b) == RLt(a.re, b.re) \/ (a.re = b.re /\ RLe(a.im, b.im))

Sign(j) == IF j % 2 = 0 THEN 1 ELSE -1

\* The component of clean at the Nyquist frequency, times its length.
Nyquist(clean) == RSum([k \in 1..Len(clean) |-> RScale(Sign(k - 1), clean[k])])

WithoutNyquist(clean, nyq) ==
    [k \in 1..Len(clean) |->
        Complex(RSub(clean[k], RDiv(RScale(Sign(k - 1), nyq), Z(Len(clean)))), Z(0))]

InverseOfMasked(clean, zeroed) ==
    CASE zeroed = {} -> [k \in 1..Len(clean) |-> Complex(clean[k], Z(0))]
      [] Len(clean) % 2 = 0 /\ zeroed = {Len(clean) \div 2} ->
            WithoutNyquist(clean, Nyquist(clean))

calculate_expected_value(values, anomaly_index, e) ==
    InverseOfMasked(deanomaly_entire(values, anomaly_index, e), ZeroedIdx(Len(values)))

(***************************************************************************)
(* SpectralResidual.__detect.  The result is Raised(..) or Returned of the *)
(* frame (one sequence per column; AnomalyId is the index) together with   *)
(* the locals of the run.                                                  *)
(***************************************************************************)
ExtendNum == 5
LookAhead == 5

ValuesOf(s) == [k \in 1..Len(s) |-> s[k].value]
TimestampsOf(s) == [k \in 1..Len(s) |-> s[k].timestamp]

Threshold(scores, threshold) == [k \in 1..Len(scores) |-> RLe(threshold, scores[k])]

\* anomaly_frame[anomaly_frame[IsAnomaly]].index.tolist()
AnomalyIndex(ids, is_anomaly) == {ids[k] : k \in {j \in 1..Len(ids) : is_anomaly[j]}}

\* The transform of the extended series, kept whole.
NoTruncate(mags, n) == mags

\* [:len(self.__series__)]
Truncate(mags, n) == PySlice(mags, 0, n)

\* Lines 79-80: a complex expected value minus / plus a real margin.
LowerBoundaryOf(expected, margins) ==
    [k \in 1..Len(expected) |-> Complex(RSub(expected[k].re, margins[k]), expected[k].im)]

UpperBoundaryOf(expected, margins) ==
    [k \in 1..Len(expected) |-> Complex(RAdd(expected[k].re, margins[k]), expected[k].im)]

\* Lines 81-84: the two logical_and steps; the real Value is compared with
\* the complex boundaries as the complex number value + 0j.
BoundaryGateLowerOnly(flags, lower, upper, values) ==
    [k \in 1..Len(flags) |-> flags[k] /\ CLe(lower[k], Complex(values[k], Z(0)))]

BoundaryGate(flags, lower, upper, values) ==
    LET above == [k \in 1..Len(flags) |-> flags[k] /\ CLe(lower[k], Complex(values[k], Z(0)))]
    IN  [k \in 1..Len(flags) |-> above[k] /\ CLe(Complex(values[k], Z(0)), upper[k])]

\* Lines 58-64 and 86: the frame of detect mode anomaly_only.
ScoreFrame(s, c, oid, mags, anomaly_scores, flags) ==
    [kind |-> "DataFrame", oid |-> oid, mode |-> c.detect_mode,
     Timestamp |-> TimestampsOf(s), Value |-> ValuesOf(s),
     AnomalyId |-> [k \in 1..Len(anomaly_scores) |-> k - 1],
     Mag |-> mags, AnomalyScore |-> anomaly_scores, IsAnomaly |-> flags]

\* Lines 77-86: margins, boundaries, the gate, and the finished frame.
MarginFrame(f, c, e, expected, boundary_units, rescaled, margins) ==
    [frame |-> [kind |-> "DataFrame", oid |-> f.oid, mode |-> f.mode,
                Timestamp |-> f.Timestamp, Value |-> f.Value, AnomalyId |-> f.AnomalyId,
                Mag |-> f.Mag, AnomalyScore |-> rescaled,
                IsAnomaly |-> BoundaryGate(f.IsAnomaly, LowerBoundaryOf(expected, margins),
                                           UpperBoundaryOf(expected, margins), f.Value),
                ExpectedValue |-> expected,
                LowerBoundary |-> LowerBoundaryOf(expected, margins),
                UpperBoundary |-> UpperBoundaryOf(expected, margins)],
     locals |-> [kind |-> "Locals", spectral |-> f.AnomalyScore, flagged |-> f.IsAnomaly,
                 boundary_units |-> boundary_units, margins |-> margins]]

\* Lines 68-77: the boundary units, the rescaled scores (which replace the
\* spectral scores of f) and the margin of each unit.
MarginUnits(f, c, e, expected, boundary_units) ==
    MarginFrame(f, c, e, expected, boundary_units,
                calculate_anomaly_scores(f.Value, expected, boundary_units, f.IsAnomaly, e),
                [k \in 1..Len(boundary_units) |->
                    calculate_margin(boundary_units[k], c.sensitivity, e)])

\* Lines 66-84: the branch of detect mode anomaly_and_margin, on the frame f
\* of lines 58-64.
MarginStep(f, c, e) ==
    MarginUnits(f, c, e,
                calculate_expected_value(f.Value, AnomalyIndex(f.AnomalyId, f.IsAnomaly), e),
                calculate_bounary_unit_entire(f.Value, f.IsAnomaly, e))

Assemble(f, c, e) ==
    IF c.detect_mode = AnomalyAndMargin
    THEN MarginStep(f, c, e)
    ELSE [frame |-> f,
          locals |-> [kind |-> "Locals", spectral |-> f.AnomalyScore, flagged |-> f.IsAnomaly,
                      boundary_units |-> <<>>, margins |-> <<>>]]

\* Lines 58-64: pd.DataFrame raises ValueError when an array column is not as
\* long as the index of the series columns.
Scored(s, c, oid, mags, anomaly_scores) ==
    IF Len(mags) # Len(s) \/ Len(anomaly_scores) # Len(s)
    THEN Raised("ValueError")
    ELSE Returned(ScoreFrame(s, c, oid, mags, anomaly_scores,
                             Threshold(anomaly_scores, c.threshold)))

\* Lines 56-57.
Transformed(s, c, oid, mags) ==
    Scored(s, c, oid, mags, generate_spectral_score(mags, c.score_window))

\* Lines 55-56.
Extended(s, c, oid, ext) ==
    IF ext.raised THEN ext
    ELSE Transformed(s, c, oid,
                     Truncate(spectral_residual_transform(ext.value, c.mag_window), Len(s)))

\* Lines 55-64: the frame before the branch on the detect mode, or the error.
ScoredFrame(s, c, oid) ==
    Extended(s, c, oid, extend_series(ValuesOf(s), ExtendNum, LookAhead))

\* Lines 66-86 on the outcome p of lines 55-64.
Assembled(p, c, e) ==
    IF p.raised THEN p ELSE Returned(Assemble(p.value, c, e))

__detect(s, c, e, oid) == Assembled(ScoredFrame(s, c, oid), c, e)

(***************************************************************************)
(* Inputs of the model, and the results the numeric library and the        *)
(* collaborators may give for an instance.                                 *)
(***************************************************************************)
ValueSet == {0, 1, 2}
UnitSet == {Z(1), Z(2)}
\* Results of calculate_margin and of calculate_anomaly_scores: the module
\* uses them as returned, whatever their sign and size, so both sets hold
\* values on either side of 0 and of 1.
MarginSet == {Q(-1, 3), Z(0), Q(1, 3), Q(4, 3)}
RescaledSet == {Z(0), Z(2)}
DenoisedSet == {Q(1, 2), Q(3, 2)}
ThresholdSet == {Q(1, 20), Q(3, 20)}
WindowSet == {2, 3}
\* The sensitivity is handed to calculate_margin as it is (line 77).
SensitivitySet == {0, 50, 150}

SeriesOfLen(n) ==
    {[k \in 1..n |-> [timestamp |-> k, value |-> Z(v[k])]] : v \in [1..n -> ValueSet]}

\* The sequences fft is given for: at most one nonzero entry, or constant.
Transformable(values) == Cardinality(Support(values)) <= 1 \/ IsConstant(values)

\* The series whose extension (line 55) raises or is such a sequence.
HasTransform(s) ==
    LET ext == extend_series(ValuesOf(s), ExtendNum, LookAhead)
    IN  ext.raised \/ Transformable(ext.value)

SeriesSet == {s \in UNION {SeriesOfLen(n) : n \in 0..MaxLen} : HasTransform(s)}

\* Such series of LongLen points: all points v, or all 0 but the last, v.
LongSeries ==
    {[k \in 1..LongLen |-> [timestamp |-> k, value |-> Z(v)]] : v \in ValueSet}
    \cup {[k \in 1..LongLen |-> [timestamp |-> k, value |-> Z(IF k = LongLen THEN v ELSE 0)]] :
             v \in ValueSet}

ConfigSet(windows, modes) ==
    [threshold : ThresholdSet, mag_window : {3}, score_window : windows,
     sensitivity : SensitivitySet, detect_mode : modes]

\* What the collaborators of the margin branch may give; nothing is asked of
\* them in detect mode AnomalyOnly.  The sequences considered have one level
\* up to a row and one level after it.
StepSeqs(n, S) ==
    {[k \in 1..n |-> IF k <= j THEN a ELSE b] : j \in 0..n, a \in S, b \in S}
UnitSeqs(s, c) ==
    IF c.detect_mode = AnomalyAndMargin THEN StepSeqs(Len(s), UnitSet) ELSE {<<>>}
MarginTables(c) ==
    IF c.detect_mode = AnomalyAndMargin
    THEN [UnitSet \X {c.sensitivity} -> MarginSet] ELSE {<<>>}
RescaledSeqs(s, c) ==
    IF c.detect_mode = AnomalyAndMargin
    THEN StepSeqs(Len(s), RescaledSet) ELSE {<<>>}
DenoisedLevels(c) ==
    IF c.detect_mode = AnomalyAndMargin THEN DenoisedSet ELSE {Z(0)}

Env(u, mg, rs, dn) ==
    [kind |-> "Env", units |-> u, margin |-> mg, rescale |-> rs, denoised |-> dn]

(***************************************************************************)
(* SpecPipeline: one instance, one run of __detect, over all inputs.       *)
(***************************************************************************)
Idle == [t \in {1, 2} |-> "idle"]
NoneYet == [t \in {1, 2} |-> Nothing]
Zero == [t \in {1, 2} |-> 0]

\* Series of up to MaxLen points in both detect modes; series of LongLen
\* points in detect mode anomaly_only, with a score window of their length.
PipelineInit ==
    /\ \/ /\ series \in SeriesSet
          /\ cfg \in ConfigSet(WindowSet, {AnomalyOnly}) \cup ConfigSet({3}, {AnomalyAndMargin})
       \/ /\ series \in LongSeries
          /\ cfg \in ConfigSet({LongLen}, {AnomalyOnly})
    /\ anomaly_frame = NoFrame /\ env = NoEnv /\ threads = {1}
    /\ pc = Idle /\ tmp = NoneYet /\ ret = NoneYet /\ prev = NoneYet /\ calls = Zero
    /\ runs = 0 /\ nextOid = 1 /\ locals = NoLocals
    /\ arg = Nothing /\ out = Nothing

RunPipeline ==
    /\ out = Nothing
    /\ \E p \in {ScoredFrame(series, cfg, nextOid)}, u \in UnitSeqs(series, cfg),
          mg \in MarginTables(cfg), rs \in RescaledSeqs(series, cfg),
          dn \in DenoisedLevels(cfg) :
          \E r \in {Assembled(p, cfg, Env(u, mg, rs, dn))} :
              /\ out' = (IF r.raised THEN r ELSE Returned(r.value.frame))
              /\ locals' = (IF r.raised THEN locals ELSE r.value.locals)
              /\ nextOid' = (IF r.raised THEN nextOid ELSE nextOid + 1)
              /\ env' = (IF r.raised THEN env ELSE Env(u, mg, rs, dn))
    /\ runs' = runs + 1
    /\ UNCHANGED <<series, cfg, anomaly_frame, threads, pc, tmp, ret, prev, calls, arg>>

PipelineNext == RunPipeline

SpecPipeline == PipelineInit /\ [][PipelineNext]_vars

(***************************************************************************)
(* SpectralResidual.detect, one step per read or write of the cached       *)
(* frame, for each thread t that uses the instance:                        *)
(*   "test"    line 47, the read of self.__anomaly_frame                   *)
(*   "run"     line 48, the call self.__detect()                           *)
(*   "store"   line 48, the assignment to self.__anomaly_frame             *)
(*   "return"  line 50, the second read and the return                     *)
(***************************************************************************)
LifecycleInit(T) ==
    /\ series \in SeriesSet
    /\ cfg \in ConfigSet({3}, {AnomalyOnly})
    /\ anomaly_frame = NoFrame /\ env = NoEnv /\ threads \in T
    /\ pc = Idle /\ tmp = NoneYet /\ ret = NoneYet /\ prev = NoneYet /\ calls = Zero
    /\ runs = 0 /\ nextOid = 1 /\ locals = NoLocals
    /\ arg = Nothing /\ out = Nothing

\* A caller enters detect().
Call(t) ==
    /\ pc[t] = "idle" /\ calls[t] < MaxCalls
    /\ pc' = [pc EXCEPT ![t] = "test"]
    /\ calls' = [calls EXCEPT ![t] = @ + 1]
    /\ UNCHANGED <<series, cfg, anomaly_frame, env, threads, tmp, ret, prev, runs,
                   nextOid, locals, arg, out>>

TestCacheAlwaysEmpty(t) ==
    /\ pc[t] = "test"
    /\ pc' = [pc EXCEPT ![t] = "run"]
    /\ UNCHANGED <<series, cfg, anomaly_frame, env, threads, tmp, ret, prev, calls, runs,
                   nextOid, locals, arg, out>>

\* Line 47: if self.__anomaly_frame is None
TestCache(t) ==
    /\ pc[t] = "test"
    /\ pc' = [pc EXCEPT ![t] = IF anomaly_frame = NoFrame THEN "run" ELSE "return"]
    /\ UNCHANGED <<series, cfg, anomaly_frame, env, threads, tmp, ret, prev, calls, runs,
                   nextOid, locals, arg, out>>

\* The results in force for a run: those recorded for the instance, or fresh ones.
EnvFor(s, c) ==
    IF env = NoEnv THEN {Env(<<>>, <<>>, <<>>, Z(0))} ELSE {env}

RunDetectRaisesAndCaches(t) ==
    /\ pc[t] = "run"
    /\ \E e \in EnvFor(series, cfg) :
          \E r \in {__detect(series, cfg, e, nextOid)} :
              /\ r.raised
              /\ prev' = [prev EXCEPT ![t] = ret[t]]
              /\ ret' = [ret EXCEPT ![t] = r]
    /\ anomaly_frame' = [kind |-> "DataFrame", oid |-> nextOid]
    /\ runs' = runs + 1
    /\ pc' = [pc EXCEPT ![t] = "idle"]
    /\ UNCHANGED <<series, cfg, env, threads, tmp, calls, nextOid, locals, arg, out>>

\* Line 48, self.__detect() raises: the exception leaves detect(), nothing is assigned.
RunDetectRaises(t) ==
    /\ pc[t] = "run"
    /\ \E e \in EnvFor(series, cfg) :
          \E r \in {__detect(series, cfg, e, nextOid)} :
              /\ r.raised
              /\ prev' = [prev EXCEPT ![t] = ret[t]]
              /\ ret' = [ret EXCEPT ![t] = r]
    /\ runs' = runs + 1
    /\ pc' = [pc EXCEPT ![t] = "idle"]
    /\ UNCHANGED <<series, cfg, anomaly_frame, env, threads, tmp, calls, nextOid,
                   locals, arg, out>>

\* Line 48, self.__detect() returns a new frame.
RunDetectReturns(t) ==
    /\ pc[t] = "run"
    /\ \E e \in EnvFor(series, cfg) :
          \E r \in {__detect(series, cfg, e, nextOid)} :
              /\ ~r.raised
              /\ tmp' = [tmp EXCEPT ![t] = r.value.frame]
              /\ env' = e
    /\ runs' = runs + 1
    /\ nextOid' = nextOid + 1
    /\ pc' = [pc EXCEPT ![t] = "store"]
    /\ UNCHANGED <<series, cfg, anomaly_frame, threads, ret, prev, calls, locals, arg, out>>

StoreFrameLost(t) ==
    /\ pc[t] = "store"
    /\ tmp' = [tmp EXCEPT ![t] = Nothing]
    /\ pc' = [pc EXCEPT ![t] = "return"]
    /\ UNCHANGED <<series, cfg, anomaly_frame, env, threads, ret, prev, calls, runs,
                   nextOid, locals, arg, out>>

\* Line 48: self.__anomaly_frame = <the frame>
StoreFrame(t) ==
    /\ pc[t] = "store"
    /\ anomaly_frame' = tmp[t]
    /\ tmp' = [tmp EXCEPT ![t] = Nothing]
    /\ pc' = [pc EXCEPT ![t] = "return"]
    /\ UNCHANGED <<series, cfg, env, threads, ret, prev, calls, runs, nextOid, locals,
                   arg, out>>

\* Line 50: return self.__anomaly_frame
ReturnFrame(t) ==
    /\ pc[t] = "return"
    /\ prev' = [prev EXCEPT ![t] = ret[t]]
    /\ ret' = [ret EXCEPT ![t] = Returned(anomaly_frame)]
    /\ pc' = [pc EXCEPT ![t] = "idle"]
    /\ UNCHANGED <<series, cfg, anomaly_frame, env, threads, tmp, calls, runs, nextOid,
                   locals, arg, out>>

Next ==
    \/ \E t \in threads : Call(t)
    \/ \E t \in threads : TestCache(t)
    \/ \E t \in threads : RunDetectRaises(t)
    \/ \E t \in threads : RunDetectReturns(t)
    \/ \E t \in threads : StoreFrame(t)
    \/ \E t \in threads : ReturnFrame(t)

\* One thread: a sequence of detect() calls on one instance.
Init == LifecycleInit({{1}})
Spec == Init /\ [][Next]_vars

\* The instance is used by one thread, or by two threads at once.
ThreadsInit == LifecycleInit({{1}, {1, 2}})
SpecThreads == ThreadsInit /\ [][Next]_vars

(***************************************************************************)
(* Direct calls of the static helpers, over all arguments in the bounds.   *)
(***************************************************************************)
SeqsUpTo(S, n) == UNION {[1..k -> S] : k \in 0..n}

HelperInit(args) ==
    /\ arg \in args /\ out = Nothing
    /\ series = <<>> /\ cfg = Nothing
    /\ anomaly_frame = NoFrame /\ env = NoEnv /\ threads = {}
    /\ pc = Idle /\ tmp = NoneYet /\ ret = NoneYet /\ prev = NoneYet /\ calls = Zero
    /\ runs = 0 /\ nextOid = 1 /\ locals = NoLocals

HelperUnchanged ==
    UNCHANGED <<series, cfg, anomaly_frame, env, threads, pc, tmp, ret, prev, calls,
                runs, nextOid, locals, arg>>

\* SpectralResidual.predict_next(values)
CallPredictNext ==
    /\ out = Nothing
    /\ out' = predict_next(ZSeq(arg.values))
    /\ HelperUnchanged

PredictInit == HelperInit([values : SeqsUpTo(0..3, MaxArgLen)])
SpecPredict == PredictInit /\ [][CallPredictNext]_vars

\* SpectralResidual.extend_series(values, extend_num, look_ahead)
CallExtendSeries ==
    /\ out = Nothing
    /\ out' = extend_series(ZSeq(arg.values), arg.extend_num, arg.look_ahead)
    /\ HelperUnchanged

ExtendInit ==
    HelperInit([values : SeqsUpTo(0..2, MaxArgLen), extend_num : -1..2, look_ahead : 0..3])
SpecExtend == ExtendInit /\ [][CallExtendSeries]_vars

\* Lines 171-172 of calculate_expected_value, on the coefficients of a
\* transform of any length.
CoefSet == {[real |-> 1, imag |-> -1], [real |-> 2, imag |-> 3]}
PartsOf(c) == [real |-> [k \in 1..Len(c) |-> c[k].real], imag |-> [k \in 1..Len(c) |-> c[k].imag]]

CallMask ==
    /\ out = Nothing
    /\ out' = mask_coefficients(arg.fft_coef)
    /\ HelperUnchanged

BandInit == HelperInit({[fft_coef |-> PartsOf(c)] : c \in SeqsUpTo(CoefSet, MaxBandLen)})
SpecBand == BandInit /\ [][CallMask]_vars

(***************************************************************************)
(* Properties.                                                             *)
(***************************************************************************)
IsReturned(x) == x # Nothing /\ ~x.raised
IsRaised(x) == x # Nothing /\ x.raised
GaveFrame(x) == IsReturned(x) /\ x.value.kind = "DataFrame"
Produced == IsReturned(out)
InMarginMode == Produced /\ out.value.mode = AnomalyAndMargin
Rows == 1..Len(series)

\* C1 as stated: the pipeline runs at most once per instance, and the first
\* detection request that has completed has moved the instance to Computed.
C1_RunsAtMostOnce ==
    /\ runs <= 1
    /\ \A t \in threads : (calls[t] >= 1 /\ pc[t] = "idle") => anomaly_frame # NoFrame

\* C1, amended: in a sequence of detect() calls on one instance at most one
\* frame is ever built; once a frame is cached the pipeline has run exactly
\* once and is not run again, and every call that returns gives that same
\* object (the same as the call before it); only while __detect raises
\* (series of fewer than 3 points) is the pipeline entered again, once per call.
C1_CachedOnce ==
    /\ nextOid <= 2
    /\ anomaly_frame # NoFrame => (runs = 1 /\ anomaly_frame.oid = 1)
    /\ \A t \in threads :
          /\ IsReturned(ret[t]) => ret[t].value = anomaly_frame /\ anomaly_frame # NoFrame
          /\ (IsReturned(ret[t]) /\ prev[t] # Nothing) => prev[t] = ret[t]
          /\ (Len(series) >= 3 /\ pc[t] \in {"store", "return", "idle"} /\ calls[t] >= 1)
                => runs = 1
          /\ (Len(series) < 3 /\ pc[t] = "idle") => runs = calls[t]

C1_Witness ==
    /\ calls[1] = MaxCalls /\ pc[1] = "idle" /\ runs = 1
    /\ GaveFrame(ret[1]) /\ GaveFrame(prev[1]) /\ ret[1].value.oid = prev[1].value.oid

\* C8: each thread builds at most one frame over all its calls, so one thread
\* alone never builds two; two callers can hold different frame objects only
\* when two threads each found the cache empty and ran the pipeline, and every
\* frame a caller holds is one the pipeline built.
C8_RaceOnlyBetweenThreads ==
    /\ nextOid - 1 <= Cardinality(threads)
    /\ nextOid - 1 <= runs
    /\ Cardinality(threads) = 1 => (runs <= 1 \/ anomaly_frame = NoFrame)
    /\ \A t \in threads :
          /\ GaveFrame(ret[t]) => ret[t].value.oid < nextOid
          /\ IsReturned(ret[t]) => GaveFrame(ret[t])
          /\ \A u \in threads :
                (GaveFrame(ret[t]) /\ GaveFrame(ret[u]) /\ ret[t].value.oid # ret[u].value.oid)
                   => (t # u /\ runs >= 2 /\ nextOid = 3)

\* Both threads found the cache empty, the pipeline ran twice, the cache was
\* written twice, and the two callers hold different objects.
C8_Witness ==
    /\ threads = {1, 2} /\ pc[1] = "idle" /\ pc[2] = "idle" /\ runs = 2
    /\ calls[1] = 1 /\ calls[2] = 1
    /\ GaveFrame(ret[1]) /\ GaveFrame(ret[2]) /\ ret[1].value.oid # ret[2].value.oid
    /\ anomaly_frame.oid = 2

\* C9: a detect() call whose pipeline raises gives the caller the ValueError
\* and no frame, builds no frame and leaves the cache empty; this is the case
\* of exactly the series of fewer than 3 points, for which every call runs
\* the pipeline again.
C9_FailsOutright ==
    \A t \in threads :
       /\ Len(series) < 3 => (anomaly_frame = NoFrame /\ nextOid = 1 /\ tmp[t] = Nothing
                              /\ ~IsReturned(ret[t]) /\ pc[t] \notin {"store", "return"})
       /\ IsRaised(ret[t]) => (ret[t] = Raised("ValueError") /\ anomaly_frame = NoFrame
                               /\ Len(series) < 3)
       /\ (Len(series) < 3 /\ pc[t] = "idle") => runs = calls[t]
       /\ (Len(series) < 3 /\ pc[t] = "idle" /\ calls[t] >= 1) => IsRaised(ret[t])
       /\ (Len(series) < 3 /\ pc[t] = "idle" /\ calls[t] >= 2) => IsRaised(prev[t])

C9_Witness ==
    /\ Len(series) = 2 /\ pc[1] = "idle" /\ calls[1] = 2 /\ runs = 2
    /\ IsRaised(ret[1]) /\ IsRaised(prev[1]) /\ anomaly_frame = NoFrame

\* lower <= value and value <= upper of record k, in the order numpy gives
\* complex numbers (real parts first), the value having imaginary part 0.
LowerLeValue(k) ==
    \/ RLt(out.value.LowerBoundary[k].re, out.value.Value[k])
    \/ /\ out.value.LowerBoundary[k].re = out.value.Value[k]
       /\ RLe(out.value.LowerBoundary[k].im, Z(0))
ValueLeUpper(k) ==
    \/ RLt(out.value.Value[k], out.value.UpperBoundary[k].re)
    \/ /\ out.value.Value[k] = out.value.UpperBoundary[k].re
       /\ RLe(Z(0), out.value.UpperBoundary[k].im)

\* C2: in AnomalyAndMargin mode the final flag of every record is the
\* threshold test on the spectral score (the score computed from the Mag
\* column, before the AnomalyScore column is overwritten) and the two
\* boundary tests; so a final flag implies the pre-boundary flag.
C2_MarginGate ==
    InMarginMode =>
        \A k \in Rows :
            /\ locals.spectral = generate_spectral_score(out.value.Mag, cfg.score_window)
            /\ locals.flagged[k] = RLe(cfg.threshold, locals.spectral[k])
            /\ out.value.IsAnomaly[k] =
                  (/\ RLe(cfg.threshold, locals.spectral[k])
                   /\ LowerLeValue(k)
                   /\ ValueLeUpper(k))
            /\ out.value.IsAnomaly[k] => locals.flagged[k]

\* A record flagged by the threshold test and dropped by the boundary test,
\* and a record that stays flagged although its overwritten score is below
\* the threshold.
C2_Witness ==
    /\ InMarginMode
    /\ \E k \in Rows : locals.flagged[k] /\ ~out.value.IsAnomaly[k]
    /\ \E k \in Rows : out.value.IsAnomaly[k] /\ RLt(out.value.AnomalyScore[k], cfg.threshold)

\* C3, as far as the source decides it.  The spectral scores of every
\* produced frame lie in [0, 1] (np.clip, line 93), and in detect mode
\* anomaly_only they are the scores of the frame.
SpectralScoreRange ==
    Produced =>
        /\ Len(out.value.AnomalyScore) = Len(series)
        /\ \A k \in 1..Len(locals.spectral) :
              RLe(Z(0), locals.spectral[k]) /\ RLe(locals.spectral[k], Z(1))
        /\ cfg.detect_mode = AnomalyOnly => out.value.AnomalyScore = locals.spectral

\* The scores of the produced frame before np.clip.
UnclippedOfFrame ==
    RawScores(out.value.Mag, ClampToEps(average_filter(out.value.Mag, cfg.score_window)))

\* A frame with a record whose score np.clip brought down to 1.
ClipActed ==
    /\ Produced /\ cfg.detect_mode = AnomalyOnly
    /\ \E raw \in {UnclippedOfFrame} :
          \E k \in Rows : RLt(Z(10), raw[k]) /\ out.value.AnomalyScore[k] = Z(1)

\* C3 in detect mode anomaly_and_margin: the scores of the frame are the
\* results of calculate_anomaly_scores as returned (lines 70-75); the range
\* of the scores is the range of those results.
MarginScoresAsReturned ==
    InMarginMode =>
        out.value.AnomalyScore
            = calculate_anomaly_scores(ValuesOf(series), out.value.ExpectedValue,
                                       locals.boundary_units, locals.flagged, env)

\* A frame whose spectral score 1/5 was overwritten by a result of
\* calculate_anomaly_scores.
MarginScoresOverwritten ==
    /\ InMarginMode
    /\ \E k \in Rows : locals.spectral[k] = Q(1, 5) /\ out.value.AnomalyScore[k] = env.rescale[k]
                       /\ env.rescale[k] # locals.spectral[k]

\* The transform of the series extended by ExtendNum predicted points.
SaliencyOfExtended ==
    spectral_residual_transform(extend_series(ValuesOf(series), ExtendNum, LookAhead).value,
                                cfg.mag_window)

\* C4: a series of N >= 3 points gives a frame; every column of a frame has
\* exactly N entries, the ids are 0..N-1, and timestamps and values are those
\* of the series, in order.
C4_ShapeAndIds ==
    /\ (out # Nothing /\ Len(series) >= 3) => Produced
    /\ Produced =>
          /\ Len(series) >= 3
          /\ out.value.AnomalyId = [k \in Rows |-> k - 1]
          /\ out.value.Timestamp = [k \in Rows |-> series[k].timestamp]
          /\ out.value.Value = [k \in Rows |-> series[k].value]
          /\ \A saliency \in {SaliencyOfExtended} :
                /\ Len(saliency) = Len(series) + ExtendNum
                /\ out.value.Mag = [k \in Rows |-> saliency[k]]
          /\ DOMAIN out.value.AnomalyScore = Rows
          /\ DOMAIN out.value.IsAnomaly = Rows
          /\ InMarginMode => /\ DOMAIN out.value.ExpectedValue = Rows
                             /\ DOMAIN out.value.LowerBoundary = Rows
                             /\ DOMAIN out.value.UpperBoundary = Rows

\* A frame of MaxLen records whose values are not all equal.
C4_Witness ==
    /\ Produced /\ Len(series) = MaxLen /\ Len(out.value.AnomalyId) = MaxLen
    /\ out.value.AnomalyId[MaxLen] = MaxLen - 1
    /\ out.value.Value[1] # out.value.Value[MaxLen]

\* C5, as far as the source decides it.  In detect mode anomaly_and_margin
\* every record has lowerBoundary = expected - margin and upperBoundary =
\* expected + margin, where margin is calculate_margin of the record's unit
\* and the sensitivity (lines 77-80); lowerBoundary <= expected <=
\* upperBoundary is the case exactly when that margin is not negative.
BoundariesFromMargin ==
    InMarginMode =>
        \A k \in Rows :
            /\ locals.boundary_units[k] = env.units[k]
            /\ locals.margins[k] = calculate_margin(env.units[k], cfg.sensitivity, env)
            /\ out.value.LowerBoundary[k].re
                  = RSub(out.value.ExpectedValue[k].re, locals.margins[k])
            /\ out.value.UpperBoundary[k].re
                  = RAdd(out.value.ExpectedValue[k].re, locals.margins[k])
            /\ out.value.LowerBoundary[k].im = out.value.ExpectedValue[k].im
            /\ out.value.UpperBoundary[k].im = out.value.ExpectedValue[k].im
            /\ (CLe(out.value.LowerBoundary[k], out.value.ExpectedValue[k])
                 /\ CLe(out.value.ExpectedValue[k], out.value.UpperBoundary[k]))
               <=> RLe(Z(0), locals.margins[k])

\* A frame with a record of margin 0 and a record of a wider margin.
BoundariesApart ==
    /\ InMarginMode
    /\ \E k \in Rows : RLt(out.value.LowerBoundary[k].re, out.value.ExpectedValue[k].re)
                       /\ RLt(out.value.ExpectedValue[k].re, out.value.UpperBoundary[k].re)
    /\ \E k \in Rows : out.value.LowerBoundary[k] = out.value.UpperBoundary[k]

\* The values the prediction of extend_series is made from: the look_ahead + 1
\* values before the last one, or all values before the last when there are fewer.
BeforeLast(values, look_ahead) ==
    LET n == Len(values)
        first == IF n - look_ahead - 1 < 1 THEN 1 ELSE n - look_ahead - 1
    IN  [j \in 1..(IF n - first < 0 THEN 0 ELSE n - first) |-> Z(values[first + j - 1])]

\* C6 as stated: every call that returns gives len(values) + extend_num values.
C6_LengthIsSum ==
    IsReturned(out) => Len(out.value) = Len(arg.values) + arg.extend_num

\* C6, amended: the call raises ValueError when look_ahead < 1 (and otherwise
\* only when fewer than 2 values precede the last one); a call that returns
\* gives the input followed by max(extend_num, 0) copies of
\* predict_next(values[-look_ahead-2:-1]): len(values) + extend_num values
\* for extend_num >= 0, and the unchanged input for a negative extend_num.
C6_ExtendSeries ==
    out # Nothing =>
        LET n == Len(arg.values)
            added == IF arg.extend_num > 0 THEN arg.extend_num ELSE 0
            basis == BeforeLast(arg.values, arg.look_ahead)
        IN  /\ arg.look_ahead < 1 => out = Raised("ValueError")
            /\ out.raised <=> (arg.look_ahead < 1 \/ Len(basis) < 2)
            /\ ~out.raised =>
                  /\ Len(out.value) = n + added
                  /\ \A k \in 1..n : out.value[k] = Z(arg.values[k])
                  /\ \A k \in (n + 1)..(n + added) : out.value[k] = predict_next(basis).value

\* Two copies of the prediction from the three values before the last one.
C6_Witness ==
    /\ arg.values = <<0, 1, 2, 0>> /\ arg.extend_num = 2 /\ arg.look_ahead = 2
    /\ out = Returned(<<Z(0), Z(1), Z(2), Z(0), Z(3), Z(3)>>)

\* C7: predict_next raises exactly for fewer than 2 values; for n >= 2 values
\* it returns values[1] + sum_{i=0}^{n-2} (values[n-1] - values[i]) / (n-1-i)
\* (0-based), checked here over the common denominator (n-1)!; so it returns
\* 4 for [1, 2, 3] and the next term for every arithmetic progression.
RECURSIVE Factorial(_)
Factorial(k) == IF k <= 1 THEN 1 ELSE k * Factorial(k - 1)

RECURSIVE SlopeSum(_, _, _)
\* sum over the 1-based positions k..n-1 of (v[n] - v[k]) * d / (n - k)
SlopeSum(v, k, d) ==
    IF k >= Len(v) THEN 0
    ELSE (v[Len(v)] - v[k]) * (d \div (Len(v) - k)) + SlopeSum(v, k + 1, d)

IsProgression(v) == \A k \in 2..(Len(v) - 1) : v[k + 1] - v[k] = v[2] - v[1]

C7_PredictNext ==
    out # Nothing =>
        LET v == arg.values
            n == Len(v)
            d == Factorial(n - 1)
        IN  /\ out.raised <=> n < 2
            /\ out.raised => out = Raised("ValueError")
            /\ n >= 2 =>
                  /\ out.value.n * d = out.value.d * (v[2] * d + SlopeSum(v, 1, d))
                  /\ IsProgression(v) => out.value = Z(v[n] + (v[2] - v[1]))
            /\ v = <<1, 2, 3>> => out = Returned(Z(4))

C7_Witness == arg.values = <<1, 2, 3>> /\ out = Returned(Z(4))

\* C10: coefficient i of a transform of length L has its real and imaginary
\* parts set to zero exactly when 8i > 3L and 8i < 5L, and unchanged
\* otherwise; the retained indices are closed under i -> L - i, and index 0
\* is retained.
InBand(L, i) == 8 * i > 3 * L /\ 8 * i < 5 * L

C10_Band ==
    out # Nothing =>
        LET L == Len(arg.fft_coef.real)
            kept(i) == out.real[i + 1] # 0 /\ out.imag[i + 1] # 0
        IN  /\ Len(out.real) = L /\ Len(out.imag) = L
            /\ \A i \in 0..(L - 1) :
                  /\ out.real[i + 1] = (IF InBand(L, i) THEN 0 ELSE arg.fft_coef.real[i + 1])
                  /\ out.imag[i + 1] = (IF InBand(L, i) THEN 0 ELSE arg.fft_coef.imag[i + 1])
            /\ \A i \in 1..(L - 1) : kept(i) <=> kept(L - i)
            /\ L >= 1 => kept(0)

\* Length 8: only the coefficient 4 is zeroed; 3 = 3L/8 and 5 = 5L/8 are kept.
C10_Witness ==
    /\ out # Nothing /\ Len(arg.fft_coef.real) = 8
    /\ out.real[5] = 0 /\ out.imag[5] = 0
    /\ out.real[4] # 0 /\ out.imag[4] # 0 /\ out.real[6] # 0 /\ out.imag[6] # 0

====
